---- MODULE Spec2Model ----
(***************************************************************************)
(* Model of the CARLA MCP server (server.py): the CarlaConnection object,  *)
(* the module-level singleton _carla_connection, get_carla_connection,     *)
(* the server lifespan and the tool handlers.                              *)
(*                                                                         *)
(* Python None is modelled by 0.  Every carla.Client construction yields a *)
(* fresh handle, numbered 1, 2, ...; a world, map or blueprint library     *)
(* carries the number of the client it was obtained from, and the name of  *)
(* map m is modelled by m itself.                                          *)
(***************************************************************************)
EXTENDS Integers, Sequences, FiniteSets, TLC

\* ---------------------------------------------------------------- bounds
MaxActors == 2
MaxHandshakes == 2

ActorIds == 1..MaxActors
None == 0

\* Points at which connect() can raise, "none" meaning it does not.
ConnectFailures == {"client", "world", "map", "blueprints", "none"}
\* The apply_batch_sync call (1st, 2nd, 3rd) that raises, 0 meaning none does.
BatchFailures == 0..3

VARIABLES
    connSet,        \* _carla_connection is not None
    conn,           \* the fields of the CarlaConnection object
    handshakes,     \* number of carla.Client objects constructed so far
    spawned,        \* number of actor ids the engine has handed out so far
    lifespan,       \* position of server_lifespan: "start", "serving", "finally_*", "exited_*"
    shutdownCalls,  \* number of disconnect() calls made by the lifespan's finally block
    startupOk,      \* the startup get_carla_connection() returned normally
    op,             \* name of the last operation executed
    pre,            \* the object's fields when the last operation was invoked
    raised,         \* exception the last operation raised, "none" if it returned
    ret,            \* value the last operation returned
    batches,        \* apply_batch_sync calls made by the last operation
    tpc,            \* concurrent handlers: position of each handler thread
    tool,           \* concurrent handlers: tool each thread runs
    th,             \* concurrent handlers: client constructed by each thread's connect()
    tret            \* concurrent handlers: value returned by each thread's tool

vars == <<connSet, conn, handshakes, spawned, lifespan, shutdownCalls, startupOk,
          op, pre, raised, ret, batches, tpc, tool, th, tret>>

Threads == {1, 2}

\* ------------------------------------------------------- return values
RetVoid == [kind |-> "void", val |-> 0, ids |-> <<>>]
RetNone == [kind |-> "None", val |-> 0, ids |-> <<>>]
RetTrue == [kind |-> "True", val |-> 0, ids |-> <<>>]
RetName(m) == [kind |-> "name", val |-> m, ids |-> <<>>]
RetCatalog(b) == [kind |-> "catalog", val |-> b, ids |-> <<>>]
RetList(s) == [kind |-> "list", val |-> 0, ids |-> s]

Outcome(s, r, v, b) == [self |-> s, raised |-> r, ret |-> v, batches |-> b]

\* ----------------------------------------------------- CarlaConnection
\* __init__: sensors and actors are not assigned (hasSensors, hasActors say
\* whether the attribute exists).
CarlaConnection ==
    [client |-> None, world |-> None, map |-> None, blueprints |-> None,
     vehicles |-> <<>>, sensors |-> <<>>, actors |-> <<>>,
     hasSensors |-> FALSE, hasActors |-> FALSE]

\* Variant: a successful connect() leaves the vehicles list as it was.
connect_keeping_vehicles(self, h, failAt) ==
    IF failAt = "client" THEN Outcome(self, "ConnectionError", RetVoid, <<>>)
    ELSE IF failAt = "world" THEN
        Outcome([self EXCEPT !.client = h], "ConnectionError", RetVoid, <<>>)
    ELSE IF failAt = "map" THEN
        Outcome([self EXCEPT !.client = h, !.world = h], "ConnectionError", RetVoid, <<>>)
    ELSE IF failAt = "blueprints" THEN
        Outcome([self EXCEPT !.client = h, !.world = h, !.map = h],
                "ConnectionError", RetVoid, <<>>)
    ELSE
        Outcome([self EXCEPT !.client = h, !.world = h, !.map = h, !.blueprints = h,
                             !.sensors = <<>>, !.actors = <<>>,
                             !.hasSensors = TRUE, !.hasActors = TRUE],
                "none", RetVoid, <<>>)

\* connect(): h is the client carla.Client() returns, failAt the call that raises.
connect(self, h, failAt) ==
    IF failAt = "client" THEN Outcome(self, "ConnectionError", RetVoid, <<>>)
    ELSE IF failAt = "world" THEN
        Outcome([self EXCEPT !.client = h], "ConnectionError", RetVoid, <<>>)
    ELSE IF failAt = "map" THEN
        Outcome([self EXCEPT !.client = h, !.world = h], "ConnectionError", RetVoid, <<>>)
    ELSE IF failAt = "blueprints" THEN
        Outcome([self EXCEPT !.client = h, !.world = h, !.map = h],
                "ConnectionError", RetVoid, <<>>)
    ELSE
        Outcome([self EXCEPT !.client = h, !.world = h, !.map = h, !.blueprints = h,
                             !.vehicles = <<>>, !.sensors = <<>>, !.actors = <<>>,
                             !.hasSensors = TRUE, !.hasActors = TRUE],
                "none", RetVoid, <<>>)

\* One apply_batch_sync call: ok says whether the call returned, failed holds
\* the ids whose DestroyActor command the engine answered with an error.
\* The call returns the per-command responses; lines 54-56 and 70-72 drop them.
Batch(self, cat, ids, ok, bad) ==
    [client |-> self.client, cat |-> cat, ids |-> ids, ok |-> ok,
     failed |-> IF ok THEN {ids[i] : i \in DOMAIN ids} \cap bad ELSE {}]

\* The three apply_batch_sync calls shared by disconnect and disconnect_all
\* (lines 54-56 and 70-72): the batches submitted and the exception that ends
\* the sequence.  Reading self.sensors or self.actors raises AttributeError
\* when connect() never reached the line that assigns it.
\* bad is the set of ids whose destroy command the engine rejects.
submit_batches(self, failAt, bad) ==
    LET b1 == <<Batch(self, "vehicles", self.vehicles, failAt # 1, bad)>> IN
    IF failAt = 1 THEN [batches |-> b1, raised |-> "ConnectionError"]
    ELSE IF ~self.hasSensors THEN [batches |-> b1, raised |-> "AttributeError"]
    ELSE LET b2 == Append(b1, Batch(self, "sensors", self.sensors, failAt # 2, bad)) IN
    IF failAt = 2 THEN [batches |-> b2, raised |-> "ConnectionError"]
    ELSE IF ~self.hasActors THEN [batches |-> b2, raised |-> "AttributeError"]
    ELSE LET b3 == Append(b2, Batch(self, "actors", self.actors, failAt # 3, bad)) IN
    IF failAt = 3 THEN [batches |-> b3, raised |-> "ConnectionError"]
    ELSE [batches |-> b3, raised |-> "none"]

disconnect(self, failAt, bad) ==
    IF self.client # None THEN
        LET s == submit_batches(self, failAt, bad) IN
        IF s.raised # "none" THEN Outcome(self, s.raised, RetVoid, s.batches)
        ELSE Outcome([self EXCEPT !.client = None], "none", RetVoid, s.batches)
    ELSE Outcome(self, "none", RetVoid, <<>>)

disconnect_all_clear(self) ==
    [self EXCEPT !.vehicles = <<>>, !.sensors = <<>>, !.actors = <<>>,
                 !.hasSensors = TRUE, !.hasActors = TRUE,
                 !.client = None, !.world = None, !.map = None, !.blueprints = None]

disconnect_all(self, failAt, bad) ==
    IF self.client # None THEN
        LET s == submit_batches(self, failAt, bad) IN
        IF s.raised # "none" THEN Outcome(self, s.raised, RetVoid, s.batches)
        ELSE Outcome(disconnect_all_clear(self), "none", RetVoid, s.batches)
    ELSE Outcome(disconnect_all_clear(self), "none", RetVoid, <<>>)

get_map(self) ==
    IF self.map # None THEN Outcome(self, "none", RetName(self.map), <<>>)
    ELSE Outcome(self, "none", RetNone, <<>>)

get_map_name(self) ==
    IF self.map # None THEN Outcome(self, "none", RetName(self.map), <<>>)
    ELSE Outcome(self, "none", RetNone, <<>>)

get_blueprints(self) ==
    IF self.blueprints # None THEN Outcome(self, "none", RetCatalog(self.blueprints), <<>>)
    ELSE Outcome(self, "none", RetList(<<>>), <<>>)

get_vehicles(self) ==
    IF self.vehicles # <<>> THEN Outcome(self, "none", RetList(self.vehicles), <<>>)
    ELSE Outcome(self, "none", RetList(<<>>), <<>>)

get_sensors(self) ==
    IF ~self.hasSensors THEN Outcome(self, "AttributeError", RetVoid, <<>>)
    ELSE IF self.sensors # <<>> THEN Outcome(self, "none", RetList(self.sensors), <<>>)
    ELSE Outcome(self, "none", RetList(<<>>), <<>>)

get_actors(self) ==
    IF ~self.hasActors THEN Outcome(self, "AttributeError", RetVoid, <<>>)
    ELSE IF self.actors # <<>> THEN Outcome(self, "none", RetList(self.actors), <<>>)
    ELSE Outcome(self, "none", RetList(<<>>), <<>>)

\* ------------------------------------------------ get_carla_connection
\* The global is assigned the new object before connect() runs, so it stays
\* set when connect() raises.  isSet/self are the global before the call.
\* Variant: the global is assigned only once connect() has returned.
get_carla_connection_assign_after_connect(isSet, self, h, failAt) ==
    IF ~isSet THEN LET out == connect(CarlaConnection, h, failAt) IN
                   [isSet |-> out.raised = "none", out |-> out]
    ELSE [isSet |-> TRUE, out |-> connect(self, h, failAt)]

\* Variant: a session that holds a client is handed back without a handshake.
get_carla_connection_reusing(isSet, self, h, failAt) ==
    IF ~isSet THEN [isSet |-> TRUE, out |-> connect(CarlaConnection, h, failAt)]
    ELSE IF self.client # None
         THEN [isSet |-> TRUE, out |-> Outcome(self, "none", RetVoid, <<>>)]
         ELSE [isSet |-> TRUE, out |-> connect(self, h, failAt)]

\* Variant: the exception of connect() is logged and not raised again.
get_carla_connection_swallowing(isSet, self, h, failAt) ==
    LET out == connect(IF isSet THEN self ELSE CarlaConnection, h, failAt) IN
    [isSet |-> TRUE, out |-> [out EXCEPT !.raised = "none"]]

get_carla_connection(isSet, self, h, failAt) ==
    IF ~isSet THEN [isSet |-> TRUE, out |-> connect(CarlaConnection, h, failAt)]
    ELSE [isSet |-> TRUE, out |-> connect(self, h, failAt)]

\* The ids held in the three lists.
Registered(self) ==
    {self.vehicles[i] : i \in DOMAIN self.vehicles}
      \cup {self.sensors[i] : i \in DOMAIN self.sensors}
      \cup {self.actors[i] : i \in DOMAIN self.actors}

\* What the engine can do to the batches of a teardown run on self: either
\* one apply_batch_sync call raises (the earlier ones answered without an
\* error), or every call returns and the engine rejects some of the destroy
\* commands.  Without a client no batch is submitted and there is nothing
\* to choose.
BatchChoices(self) ==
    IF self.client = None THEN {<<0, {}>>}
    ELSE {<<k, {}>> : k \in BatchFailures}
         \cup {<<0, bad>> : bad \in SUBSET Registered(self)}

\* ------------------------------------------------------------- state
Init ==
    /\ connSet = FALSE
    /\ conn = CarlaConnection
    /\ handshakes = 0
    /\ spawned = 0
    /\ lifespan = "start"
    /\ shutdownCalls = 0
    /\ startupOk = FALSE
    /\ op = "import"
    /\ pre = CarlaConnection
    /\ raised = "none"
    /\ ret = RetVoid
    /\ batches = <<>>
    /\ tpc = [t \in Threads |-> "idle"]
    /\ tool = [t \in Threads |-> "none"]
    /\ th = [t \in Threads |-> 0]
    /\ tret = [t \in Threads |-> RetVoid]

threadVars == <<tpc, tool, th, tret>>
lifeVars == <<lifespan, shutdownCalls, startupOk>>

\* Record the outcome of a method called on the connection object.
Apply(name, out) ==
    /\ op' = name
    /\ pre' = conn
    /\ conn' = out.self
    /\ raised' = out.raised
    /\ ret' = out.ret
    /\ batches' = out.batches

\* Variant: the startup exception leaves the lifespan before the yield.
startup_next_propagating(exc) == IF exc # "none" THEN "finally_error" ELSE "serving"

\* Lines 153-158: "except Exception" logs the exception exc of the startup
\* get_carla_connection() and falls through to the yield.
startup_next(exc) == "serving"

\* server_lifespan up to the yield: the exception of a failed
\* get_carla_connection() is logged and swallowed.
LifespanStartup ==
    /\ lifespan = "start"
    /\ \E failAt \in ConnectFailures :
         LET g == get_carla_connection(connSet, conn, handshakes + 1, failAt) IN
         /\ connSet' = g.isSet
         /\ Apply("startup", [g.out EXCEPT !.raised = "none"])
         /\ startupOk' = (g.out.raised = "none")
         /\ handshakes' = IF failAt = "client" THEN handshakes ELSE handshakes + 1
         /\ lifespan' = startup_next(g.out.raised)
    /\ UNCHANGED <<shutdownCalls, spawned, threadVars>>

\* The host leaves the body of the lifespan context, normally or with an
\* error thrown into the generator at the yield.
LifespanExit ==
    /\ lifespan = "serving"
    /\ \A t \in Threads : tpc[t] \in {"idle", "ret", "raised", "raised_attr"}
    /\ lifespan' \in {"finally_normal", "finally_error"}
    /\ Apply("exit", Outcome(conn, "none", RetVoid, <<>>))
    /\ UNCHANGED <<connSet, handshakes, spawned, shutdownCalls, startupOk, threadVars>>

\* server_lifespan's finally block.
LifespanFinally ==
    /\ lifespan \in {"finally_normal", "finally_error"}
    /\ \E e \in BatchChoices(conn) :
         IF connSet
         THEN /\ Apply("shutdown", disconnect(conn, e[1], e[2]))
              /\ shutdownCalls' = shutdownCalls + 1
         ELSE /\ Apply("shutdown", Outcome(conn, "none", RetVoid, <<>>))
              /\ UNCHANGED shutdownCalls
    /\ lifespan' = IF lifespan = "finally_normal" THEN "exited_normal" ELSE "exited_error"
    /\ UNCHANGED <<connSet, handshakes, spawned, startupOk, threadVars>>

\* ------------------------------------------------------------- tools
destroy_all_actors(isSet, self, h, cFail, bFail, bad) ==
    LET g == get_carla_connection(isSet, self, h, cFail) IN
    IF g.out.raised # "none" THEN g.out
    ELSE LET d == disconnect_all(g.out.self, bFail, bad) IN
         IF d.raised # "none" THEN d ELSE [d EXCEPT !.ret = RetTrue]

tool_get_map_name(isSet, self, h, cFail) ==
    LET g == get_carla_connection(isSet, self, h, cFail) IN
    IF g.out.raised # "none" THEN g.out ELSE get_map_name(g.out.self)

tool_get_blueprints(isSet, self, h, cFail) ==
    LET g == get_carla_connection(isSet, self, h, cFail) IN
    IF g.out.raised # "none" THEN g.out ELSE get_blueprints(g.out.self)

Serving == lifespan = "serving" /\ connSet

\* A call that starts with get_carla_connection() constructs one more client.
Handshake(failAt) ==
    /\ handshakes < MaxHandshakes
    /\ handshakes' = IF failAt = "client" THEN handshakes ELSE handshakes + 1

AcquireSession ==
    /\ Serving
    /\ \E failAt \in ConnectFailures :
         /\ Handshake(failAt)
         /\ Apply("get_carla_connection",
                  get_carla_connection(connSet, conn, handshakes + 1, failAt).out)
    /\ UNCHANGED <<connSet, spawned, lifeVars, threadVars>>

DestroyAllActorsTool ==
    /\ Serving
    /\ \E cFail \in ConnectFailures :
         \E e \in BatchChoices(get_carla_connection(connSet, conn, handshakes + 1, cFail).out.self) :
             /\ cFail # "none" => e = <<0, {}>>
             /\ Handshake(cFail)
             /\ Apply("destroy_all_actors",
                      destroy_all_actors(connSet, conn, handshakes + 1, cFail, e[1], e[2]))
    /\ UNCHANGED <<connSet, spawned, lifeVars, threadVars>>

GetMapNameTool ==
    /\ Serving
    /\ \E cFail \in ConnectFailures :
         /\ Handshake(cFail)
         /\ Apply("tool_get_map_name",
                  tool_get_map_name(connSet, conn, handshakes + 1, cFail))
    /\ UNCHANGED <<connSet, spawned, lifeVars, threadVars>>

GetBlueprintsTool ==
    /\ Serving
    /\ \E cFail \in ConnectFailures :
         /\ Handshake(cFail)
         /\ Apply("tool_get_blueprints",
                  tool_get_blueprints(connSet, conn, handshakes + 1, cFail))
    /\ UNCHANGED <<connSet, spawned, lifeVars, threadVars>>

\* ---------------------------------- methods called on the connection
Method(name, out) ==
    /\ Serving
    /\ Apply(name, out)
    /\ UNCHANGED <<connSet, handshakes, spawned, lifeVars, threadVars>>

Disconnect ==
    \E e \in BatchChoices(conn) : Method("disconnect", disconnect(conn, e[1], e[2]))
DisconnectAll ==
    \E e \in BatchChoices(conn) : Method("disconnect_all", disconnect_all(conn, e[1], e[2]))
GetMap == Method("get_map", get_map(conn))
GetMapName == Method("get_map_name", get_map_name(conn))
GetBlueprints == Method("get_blueprints", get_blueprints(conn))
GetVehicles == Method("get_vehicles", get_vehicles(conn))
GetSensors == Method("get_sensors", get_sensors(conn))
GetActors == Method("get_actors", get_actors(conn))

\* A caller appends a newly spawned actor to one of the object's three
\* lists.  The engine hands out each actor id once; a list that was never
\* assigned cannot be appended to.
Register ==
    /\ Serving
    /\ spawned < MaxActors
    /\ \E cat \in {"vehicles", "sensors", "actors"} :
         /\ cat = "sensors" => conn.hasSensors
         /\ cat = "actors" => conn.hasActors
         /\ Apply("register",
                  Outcome([conn EXCEPT ![cat] = Append(@, spawned + 1)], "none", RetVoid, <<>>))
    /\ spawned' = spawned + 1
    /\ UNCHANGED <<connSet, handshakes, lifeVars, threadVars>>

Next ==
    \/ LifespanStartup
    \/ LifespanExit
    \/ LifespanFinally
    \/ AcquireSession
    \/ DestroyAllActorsTool
    \/ GetMapNameTool
    \/ GetBlueprintsTool
    \/ Disconnect
    \/ DisconnectAll
    \/ GetMap
    \/ GetMapName
    \/ GetBlueprints
    \/ GetVehicles
    \/ GetSensors
    \/ GetActors
    \/ Register

Spec == Init /\ [][Next]_vars

\* Python runs a finally block once its try block is left.
LiveSpec == Spec /\ WF_vars(LifespanFinally)

TypeOK ==
    /\ connSet \in BOOLEAN
    /\ conn.client \in 0..MaxHandshakes
    /\ handshakes \in 0..MaxHandshakes
    /\ spawned \in 0..MaxActors
    /\ Registered(conn) \subseteq ActorIds
    /\ shutdownCalls \in 0..1


\* ------------------------------------------- concurrent tool handlers
\* Two handlers run the tools statement by statement on the shared object,
\* with no lock: the module defines none.  A position is named after the
\* source line the thread executes next; "raised" is a handler ended by a
\* failed engine call, "raised_attr" one ended by an attribute access on None.
histVars == <<op, pre, raised, ret, batches>>

Frame == UNCHANGED <<connSet, spawned, lifeVars, histVars>>
Goto(t, pc) == tpc' = [tpc EXCEPT ![t] = pc]
Raise(t) == Goto(t, "raised") /\ UNCHANGED <<conn, handshakes, th, tret>>
RaiseAttr(t) == Goto(t, "raised_attr") /\ UNCHANGED <<conn, handshakes, th, tret>>
Finished(t) == tpc[t] \in {"idle", "ret", "raised", "raised_attr"}

\* Position after connect() has returned, by tool.
AfterConnect(t) == IF tool[t] = "destroy_all_actors" THEN "l69" ELSE "l142"

\* A handler is invoked: destroy_all_actors or get_map_name.
TInvoke(t) ==
    /\ Serving
    /\ tpc[t] = "idle"
    /\ handshakes + Cardinality({u \in Threads : tpc[u] = "l35"}) < MaxHandshakes
    /\ \E f \in {"destroy_all_actors", "get_map_name"} : tool' = [tool EXCEPT ![t] = f]
    /\ Goto(t, "l35")
    /\ UNCHANGED <<conn, handshakes, th, tret>>
    /\ Frame

\* line 35: self.client = carla.Client(...)
TClient(t) ==
    /\ tpc[t] = "l35"
    /\ \/ Raise(t)
       \/ /\ handshakes' = handshakes + 1
          /\ conn' = [conn EXCEPT !.client = handshakes + 1]
          /\ th' = [th EXCEPT ![t] = handshakes + 1]
          /\ Goto(t, "l41")
          /\ UNCHANGED tret
    /\ UNCHANGED tool
    /\ Frame

\* line 41: self.world = self.client.get_world()
TWorld(t) ==
    /\ tpc[t] = "l41"
    /\ IF conn.client = None THEN RaiseAttr(t)
       ELSE \/ Raise(t)
            \/ /\ conn' = [conn EXCEPT !.world = conn.client]
               /\ Goto(t, "l42")
               /\ UNCHANGED <<handshakes, th, tret>>
    /\ UNCHANGED tool
    /\ Frame

\* line 42: self.map = self.world.get_map()
TMap(t) ==
    /\ tpc[t] = "l42"
    /\ IF conn.world = None THEN RaiseAttr(t)
       ELSE \/ Raise(t)
            \/ /\ conn' = [conn EXCEPT !.map = conn.world]
               /\ Goto(t, "l43")
               /\ UNCHANGED <<handshakes, th, tret>>
    /\ UNCHANGED tool
    /\ Frame

\* line 43: self.blueprints = self.world.get_blueprint_library()
TBlueprints(t) ==
    /\ tpc[t] = "l43"
    /\ IF conn.world = None THEN RaiseAttr(t)
       ELSE \/ Raise(t)
            \/ /\ conn' = [conn EXCEPT !.blueprints = conn.world]
               /\ Goto(t, "l44")
               /\ UNCHANGED <<handshakes, th, tret>>
    /\ UNCHANGED tool
    /\ Frame

\* lines 44-47: the four list assignments that end connect()
TLists(t) ==
    /\ tpc[t] = "l44"
    /\ conn' = [conn EXCEPT !.vehicles = <<>>, !.sensors = <<>>, !.actors = <<>>,
                            !.hasSensors = TRUE, !.hasActors = TRUE]
    /\ Goto(t, AfterConnect(t))
    /\ UNCHANGED <<handshakes, th, tret, tool>>
    /\ Frame

\* line 69: if self.client
TIfClient(t) ==
    /\ tpc[t] = "l69"
    /\ Goto(t, IF conn.client # None THEN "l70" ELSE "l79")
    /\ UNCHANGED <<conn, handshakes, th, tret, tool>>
    /\ Frame

\* lines 70-72: the three apply_batch_sync calls; each reads self.client
\* again, and raises when the submission fails.
TBatches(t) ==
    /\ tpc[t] \in {"l70", "l71", "l72"}
    /\ IF conn.client = None THEN RaiseAttr(t)
       ELSE \/ Raise(t)
            \/ /\ Goto(t, IF tpc[t] = "l70" THEN "l71"
                          ELSE IF tpc[t] = "l71" THEN "l72" ELSE "l79")
               /\ UNCHANGED <<conn, handshakes, th, tret>>
    /\ UNCHANGED tool
    /\ Frame

\* lines 79-82: the registry lists are emptied
TClearLists(t) ==
    /\ tpc[t] = "l79"
    /\ conn' = [conn EXCEPT !.vehicles = <<>>, !.sensors = <<>>, !.actors = <<>>,
                            !.hasSensors = TRUE, !.hasActors = TRUE]
    /\ Goto(t, "l83")
    /\ UNCHANGED <<handshakes, th, tret, tool>>
    /\ Frame

\* lines 83-86: client, world, map, blueprints are set to None, one
\* statement each; line 207 then returns True.
TClearField(t) ==
    /\ tpc[t] \in {"l83", "l84", "l85", "l86"}
    /\ conn' = IF tpc[t] = "l83" THEN [conn EXCEPT !.client = None]
               ELSE IF tpc[t] = "l84" THEN [conn EXCEPT !.world = None]
               ELSE IF tpc[t] = "l85" THEN [conn EXCEPT !.map = None]
               ELSE [conn EXCEPT !.blueprints = None]
    /\ IF tpc[t] = "l86"
       THEN Goto(t, "ret") /\ tret' = [tret EXCEPT ![t] = RetTrue]
       ELSE /\ Goto(t, IF tpc[t] = "l83" THEN "l84"
                       ELSE IF tpc[t] = "l84" THEN "l85" ELSE "l86")
            /\ UNCHANGED tret
    /\ UNCHANGED <<handshakes, th, tool>>
    /\ Frame

\* line 142: if self.map ... else return None
TIfMap(t) ==
    /\ tpc[t] = "l142"
    /\ IF conn.map # None
       THEN Goto(t, "l143") /\ UNCHANGED tret
       ELSE Goto(t, "ret") /\ tret' = [tret EXCEPT ![t] = RetNone]
    /\ UNCHANGED <<conn, handshakes, th, tool>>
    /\ Frame

\* line 143: return self.map.name, which reads self.map again
TMapName(t) ==
    /\ tpc[t] = "l143"
    /\ IF conn.map # None
       THEN Goto(t, "ret") /\ tret' = [tret EXCEPT ![t] = RetName(conn.map)]
       ELSE Goto(t, "raised_attr") /\ UNCHANGED tret
    /\ UNCHANGED <<conn, handshakes, th, tool>>
    /\ Frame

ConcNext ==
    \/ LifespanStartup
    \/ \E t \in Threads : TInvoke(t)
    \/ \E t \in Threads : TClient(t)
    \/ \E t \in Threads : TWorld(t)
    \/ \E t \in Threads : TMap(t)
    \/ \E t \in Threads : TBlueprints(t)
    \/ \E t \in Threads : TLists(t)
    \/ \E t \in Threads : TIfClient(t)
    \/ \E t \in Threads : TBatches(t)
    \/ \E t \in Threads : TClearLists(t)
    \/ \E t \in Threads : TClearField(t)
    \/ \E t \in Threads : TIfMap(t)
    \/ \E t \in Threads : TMapName(t)

ConcSpec == Init /\ [][ConcNext]_vars

\* The same handlers under one mutual-exclusion domain: a handler takes a
\* step only when no other handler is between its invocation and its return.
LockedNext ==
    /\ ConcNext
    /\ \A t \in Threads : tpc'[t] # tpc[t] => \A u \in Threads \ {t} : Finished(u)

LockedSpec == Init /\ [][LockedNext]_vars

\* ------------------------------------------------------------ claims
\* The session is fully connected: all four fields come from one handshake.
Connected(self) ==
    /\ self.client # None
    /\ self.world = self.client
    /\ self.map = self.client
    /\ self.blueprints = self.client

RegistryEmpty(self) == self.vehicles = <<>> /\ self.sensors = <<>> /\ self.actors = <<>>

SubmittedIds == UNION {{batches[i].ids[j] : j \in DOMAIN batches[i].ids} : i \in DOMAIN batches}

\* C1: a teardown (disconnect or disconnect_all) invoked with a live client
\* submits a destroy batch for each of the three categories holding every id
\* registered in it, also when the submission of an earlier batch fails.
C1_EveryCategorySubmitted ==
    (op \in {"disconnect", "disconnect_all"} /\ pre.client # None
       /\ pre.hasSensors /\ pre.hasActors)
    => \A cat \in {"vehicles", "sensors", "actors"} :
         \E i \in DOMAIN batches : batches[i].cat = cat /\ batches[i].ids = pre[cat]

\* C2: disconnect_all on a Connected session clears the three registry lists
\* and keeps client, world and map, so that get_map_name called right after
\* it returns the map name.
C2_KeepSession ==
    (op = "disconnect_all" /\ Connected(pre) /\ raised = "none")
    => /\ RegistryEmpty(conn)
       /\ conn.client = pre.client /\ conn.world = pre.world /\ conn.map = pre.map
       /\ get_map_name(conn).ret = RetName(pre.map)

\* C3: after disconnect returns on a Connected session, no client is held
\* and the three registry lists are empty.
C3_FullDisconnect ==
    (op = "disconnect" /\ Connected(pre) /\ raised = "none")
    => conn.client = None /\ RegistryEmpty(conn)

\* The last get_carla_connection call (startup or later) returned normally.
AcquireOk == IF op = "startup" THEN startupOk ELSE raised = "none"

\* C4: after a get_carla_connection call the session is fully Connected with
\* the fields of that call's handshake when it succeeded, and unchanged when
\* it failed; a client is never held next to absent or older world/map/blueprints.
C4_NoPartialSession ==
    op \in {"startup", "get_carla_connection"}
    => /\ AcquireOk => Connected(conn) /\ conn.client = handshakes
       /\ ~AcquireOk => conn = pre
       /\ conn.client # None => Connected(conn)

\* C5: on every exit path of the lifespan, normal or error, and whether or
\* not the startup connection succeeded, the finally block is reached and
\* disconnect() has then been invoked exactly once.
C5_ShutdownTeardownOnce ==
    /\ [](lifespan \in {"exited_normal", "exited_error"} => shutdownCalls = 1)
    /\ [](lifespan \in {"start", "serving"} => shutdownCalls = 0)
    /\ (lifespan \in {"finally_normal", "finally_error"}
          ~> (lifespan \in {"exited_normal", "exited_error"} /\ shutdownCalls = 1))

\* C5 witness: the error exit after a failed startup has run the teardown.
C5_Witness ==
    lifespan = "exited_error" /\ ~startupOk /\ shutdownCalls = 1 /\ op = "shutdown"

\* C6: concurrent handlers behave as in one of the serial orders: no handler
\* trips over a field another handler has cleared, a get_map_name handler
\* that returns hands back a map name, and once every invoked handler has
\* returned the session is either fully Connected or fully cleared, never a
\* client next to cleared or foreign world/map fields.
C6_SerialOutcome ==
    /\ \A t \in Threads : tpc[t] # "raised_attr"
    /\ \A t \in Threads :
         (tpc[t] = "ret" /\ tool[t] = "get_map_name") => tret[t].kind = "name"
    /\ ((\E t \in Threads : tpc[t] = "ret") /\ (\A t \in Threads : tpc[t] \in {"idle", "ret"}))
       => \/ Connected(conn)
          \/ conn.client = None /\ conn.world = None /\ conn.map = None
               /\ conn.blueprints = None

\* C7: when the destroy_all_actors tool returns True, a destroy command was
\* submitted for every id registered when the tool was invoked.
C7_TrueMeansAllDestroyed ==
    (op = "destroy_all_actors" /\ raised = "none" /\ ret = RetTrue)
    => Registered(pre) \subseteq SubmittedIds

\* C8: get_map_name / get_map invoked without a session raises an explicit
\* error instead of returning None.
C8_MapNameFailsExplicitly ==
    (op \in {"get_map_name", "get_map"} /\ pre.client = None)
    => raised # "none" /\ ret.kind # "None"

\* C9: without a live client, get_map, get_map_name and get_blueprints never
\* return a map name or blueprint catalog of an earlier connection.
C9_NoStaleDescriptor ==
    (op \in {"get_map_name", "get_map", "get_blueprints"} /\ pre.client = None)
    => ret.kind \notin {"name", "catalog"}

ListedCategory ==
    IF op = "get_vehicles" THEN "vehicles"
    ELSE IF op = "get_sensors" THEN "sensors" ELSE "actors"

\* C10: get_vehicles / get_sensors / get_actors return the category's ids in
\* insertion order, and an empty list without raising when the category is
\* empty or no session is active.
C10_ListActors ==
    op \in {"get_vehicles", "get_sensors", "get_actors"}
    => /\ raised = "none"
       /\ ret = IF pre.client = None THEN RetList(<<>>) ELSE RetList(pre[ListedCategory])

\* C11: after a successful get_carla_connection (first connect or reconnect,
\* whatever the registry held before), get_vehicles, get_sensors and
\* get_actors each return an empty list.
C11_FreshRegistry ==
    (op \in {"startup", "get_carla_connection"} /\ AcquireOk)
    => /\ get_vehicles(conn) = Outcome(conn, "none", RetList(<<>>), <<>>)
       /\ get_sensors(conn) = Outcome(conn, "none", RetList(<<>>), <<>>)
       /\ get_actors(conn) = Outcome(conn, "none", RetList(<<>>), <<>>)

\* C11 witness: a reconnect succeeded on a session that held registered ids.
C11_Witness ==
    op = "get_carla_connection" /\ raised = "none" /\ Registered(pre) # {}
      /\ pre.vehicles # <<>>

\* C12: disconnect called twice in a row from a Connected state: the second
\* call submits no batch, changes neither session nor registry, and returns.
C12_SecondDisconnectNoOp ==
    [][(op = "disconnect" /\ Connected(pre) /\ op' = "disconnect")
         => (batches' = <<>> /\ conn' = conn /\ raised' = "none")]_vars

\* C13: disconnect and disconnect_all called without a client submit nothing,
\* leave session fields and registry as they were, and return.
C13_TeardownWithoutClientNoOp ==
    (op \in {"disconnect", "disconnect_all"} /\ pre.client = None)
    => /\ batches = <<>> /\ raised = "none"
       /\ conn.client = pre.client /\ conn.world = pre.world
       /\ conn.map = pre.map /\ conn.blueprints = pre.blueprints
       /\ conn.vehicles = pre.vehicles /\ conn.sensors = pre.sensors
       /\ conn.actors = pre.actors

BatchIds(b) == {b.ids[j] : j \in DOMAIN b.ids}
AllSubmitted == \A i \in DOMAIN batches : batches[i].ok
ReportedIds == {ret.ids[j] : j \in DOMAIN ret.ids}

\* C14: when a teardown batch holds a command for an id X that fails and one
\* for an id Y that succeeds, both ids leave the registry, the operation
\* succeeds, and the caller is told that the destroy of X failed.
C14_PartialFailureReported ==
    (op \in {"disconnect_all", "destroy_all_actors"} /\ AllSubmitted)
    => \A i \in DOMAIN batches :
         (batches[i].failed # {} /\ BatchIds(batches[i]) \ batches[i].failed # {})
         => /\ BatchIds(batches[i]) \cap Registered(conn) = {}
            /\ raised = "none"
            /\ batches[i].failed \subseteq ReportedIds

AcquireOps == {"get_carla_connection", "tool_get_map_name", "tool_get_blueprints"}

\* C15 as stated: every get_carla_connection call made while a client is held
\* discards that client and installs a new one.
C15_AlwaysReplaced ==
    (op \in AcquireOps /\ pre.client # None)
    => conn.client # None /\ conn.client # pre.client

\* C15 as amended: every get_carla_connection call made while a client is
\* held constructs a new client and never reuses the old one: once the
\* constructor has returned, the new client has replaced the old one, and a
\* call that returns leaves all four session fields on the new client; the old
\* client is kept only when the constructor itself raised, with the object
\* unchanged.
C15_NeverReused ==
    (op \in AcquireOps /\ pre.client # None)
    => /\ conn.client # None
       /\ conn.client # pre.client => conn.client = handshakes
       /\ conn.client = pre.client => raised = "ConnectionError" /\ conn = pre
       /\ raised = "none" => Connected(conn) /\ conn.client = handshakes
                               /\ conn.client # pre.client

\* C15 witness: a reconnect on a Connected session installed a new client.
C15_Witness ==
    op = "get_carla_connection" /\ Connected(pre) /\ raised = "none"
      /\ Connected(conn) /\ conn.client # pre.client

\* C16: when get_carla_connection fails during startup the exception does not
\* leave the lifespan: it reaches the yield and serves.
C16_StartupFailureStillServes ==
    op = "startup" => lifespan = "serving" /\ raised = "none" /\ connSet

\* C16 witness: the lifespan serves after a failed startup connection.
C16_Witness ==
    op = "startup" /\ ~startupOk /\ lifespan = "serving" /\ ~Connected(conn)

\* C17: a get_carla_connection call makes at most one handshake attempt and
\* raises when it fails; a call that returns, also after earlier failures,
\* has made a fresh handshake and leaves the session fully Connected on it.
C17_FailurePropagatesNoRetry ==
    [][op' = "get_carla_connection"
         => /\ handshakes' \in {handshakes, handshakes + 1}
            /\ raised' = "none" => /\ handshakes' = handshakes + 1
                                   /\ Connected(conn')
                                   /\ conn'.client = handshakes'
            /\ raised' # "none" => /\ raised' = "ConnectionError"
                                   /\ ~(Connected(conn') /\ conn'.client = handshakes + 1)]_vars

\* C17 witness: a call succeeded on the partial session an earlier failed
\* call had left.
C17_Witness ==
    op = "get_carla_connection" /\ raised = "none" /\ Connected(conn)
      /\ ~startupOk /\ pre.client # None /\ ~Connected(pre)

\* C18: a teardown run with a live client submits exactly one batch per
\* category in the order vehicles, sensors, actors, and clears the client or
\* the registry only after the three submissions.
C18_OneBatchPerCategoryInOrder ==
    (op \in {"disconnect", "disconnect_all", "shutdown"} /\ pre.client # None
       /\ pre.hasSensors /\ pre.hasActors)
    => /\ [i \in DOMAIN batches |-> batches[i].cat] = <<"vehicles", "sensors", "actors">>
       /\ conn # pre => Len(batches) = 3

\* C19: an id leaves the registry only in an operation that submitted a
\* destroy command for it on a live client.
C19_NoActorLeak ==
    LET removed == Registered(pre) \ Registered(conn) IN
    /\ removed \subseteq SubmittedIds
    /\ removed # {} => pre.client # None

\* C20: the shutdown disconnect() returns on the object a failed first
\* get_carla_connection left behind, whichever call of connect() failed.
C20_ShutdownAfterFailedConnect ==
    (op = "shutdown" /\ ~startupOk /\ ~pre.hasSensors /\ AllSubmitted)
    => raised = "none"

====
